---------------------------- MODULE Spec2Model ----------------------------
(***************************************************************************)
(* Model of MarkdownHighlighter (markdownhighlighter.cpp): the per-line    *)
(* classification highlightBlock with its block passes, the embedded C++   *)
(* scanner highlightSyntax, and the dirty-block queue drained by           *)
(* timerTick.                                                              *)
(*                                                                         *)
(* A text is a sequence of one-character strings.  Positions handed to     *)
(* setFormat are 0-based as in the source; TLA+ sequences are 1-based, so  *)
(* the character at source position i is text[i + 1].                      *)
(***************************************************************************)
EXTENDS Integers, Sequences, FiniteSets, TLC

(***************************************************************************)
(* HighlighterState: the values of the enumeration.  The source compares   *)
(* states with 200 and computes H1 + count - 1, so states are integers.    *)
(***************************************************************************)
NoState == -1
Link == 0
Image == 3
CodeBlock == 4
Italic == 7
Bold == 8
List == 9
Comment == 11
H1 == 12
H2 == 13
H3 == 14
H4 == 15
H5 == 16
H6 == 17
BlockQuote == 18
HorizontalRuler == 21
Table == 22
InlineCodeBlock == 23
MaskedSyntax == 24
FrontmatterBlock == 27
TrailingSpace == 28
CodeBlockEnd == 100
HeadlineEnd == 101
FrontmatterBlockEnd == 102
CodeCpp == 200
CodeJs == 201

States ==
    {NoState, Link, Image, CodeBlock, Italic, Bold, List, Comment, H1, H2, H3,
     H4, H5, H6, BlockQuote, HorizontalRuler, Table, InlineCodeBlock,
     MaskedSyntax, FrontmatterBlock, TrailingSpace, CodeBlockEnd, HeadlineEnd,
     FrontmatterBlockEnd, CodeCpp, CodeJs}

(***************************************************************************)
(* Characters and QString primitives.                                      *)
(***************************************************************************)
Letters ==
    {"a", "b", "c", "d", "e", "f", "g", "h", "i", "j", "k", "l", "m", "n",
     "o", "p", "q", "r", "s", "t", "u", "v", "w", "x", "y", "z",
     "A", "B", "C", "D", "E", "F", "G", "H", "I", "J", "K", "L", "M", "N",
     "O", "P", "Q", "R", "S", "T", "U", "V", "W", "X", "Y", "Z"}

Digits == {"0", "1", "2", "3", "4", "5", "6", "7", "8", "9"}

\* \s of the rule patterns and QString::trimmed, over one-line texts
Whitespace == {" ", "\t"}

\* the backquote character, which a TLA+ string cannot hold
Backtick == "BACKTICK"

isLetter(c) == c \in Letters

isNumber(c) == c \in Digits

Min(a, b) == IF a < b THEN a ELSE b

\* QString::startsWith
startsWith(text, p) ==
    /\ Len(p) <= Len(text)
    /\ \A k \in 1..Len(p) : text[k] = p[k]

\* QString::endsWith
endsWith(text, p) ==
    /\ Len(p) <= Len(text)
    /\ \A k \in 1..Len(p) : text[Len(text) - Len(p) + k] = p[k]

\* p occurs in text at 0-based position i
occursAt(text, p, i) ==
    /\ i >= 0
    /\ i + Len(p) <= Len(text)
    /\ \A k \in 1..Len(p) : text[i + k] = p[k]

\* QString::indexOf(p, from): the first 0-based position >= from, or -1
indexOf(text, p, from) ==
    LET hits == {i \in from..(Len(text) - Len(p)) : occursAt(text, p, i)}
    IN  IF hits = {} THEN -1 ELSE CHOOSE i \in hits : \A j \in hits : i <= j

\* QString::contains
contains(text, p) == indexOf(text, p, 0) # -1

\* QString::mid(i, n) / midRef(i, n), as a value: empty when i is past the end
mid(text, i, n) ==
    IF i < 0 \/ i >= Len(text) THEN <<>>
    ELSE SubSeq(text, i + 1, Min(i + n, Len(text)))

\* QString::trimmed
trimmed(text) ==
    LET keep == {k \in 1..Len(text) : text[k] \notin Whitespace}
    IN  IF keep = {} THEN <<>>
        ELSE SubSeq(text,
                    CHOOSE k \in keep : \A j \in keep : k <= j,
                    CHOOSE k \in keep : \A j \in keep : k >= j)

(***************************************************************************)
(* QTextCharFormat: the properties the source sets.  size is the font      *)
(* point size in tenths of a point, 0 when unset.                          *)
(***************************************************************************)
DefaultFontSize == 12

\* the point size (in tenths) of QFontDatabase::systemFont(FixedFont)
FixedFontSize == 100

QTextCharFormat ==
    [fg |-> "", bg |-> "", bold |-> FALSE, italic |-> FALSE,
     underline |-> FALSE, fixed |-> FALSE, size |-> 0]

setFontPointSize(f, s) == [f EXCEPT !.size = s]

setForeground(f, colour) == [f EXCEPT !.fg = colour]

\* the table installed by initTextFormats; a category it does not set reads
\* as the default format, as QHash::operator[] gives it
initTextFormats ==
    LET headline(tenths) ==
            [QTextCharFormat EXCEPT !.fg = "0,49,110", !.bold = TRUE,
                                    !.size = DefaultFontSize * tenths]
        code == [QTextCharFormat EXCEPT !.fixed = TRUE, !.size = FixedFontSize,
                                        !.bg = "220,220,220"]
    IN  [s \in States |->
            CASE s = H1 -> headline(16)
              [] s = H2 -> headline(15)
              [] s = H3 -> headline(14)
              [] s = H4 -> headline(13)
              [] s = H5 -> headline(12)
              [] s = H6 -> headline(11)
              [] s = HorizontalRuler ->
                    [QTextCharFormat EXCEPT !.fg = "darkGray", !.bg = "lightGray"]
              [] s = List -> [QTextCharFormat EXCEPT !.fg = "163,0,123"]
              [] s = Link ->
                    [QTextCharFormat EXCEPT !.fg = "0,128,255", !.underline = TRUE]
              [] s = Image ->
                    [QTextCharFormat EXCEPT !.fg = "0,191,0", !.bg = "228,255,228"]
              [] s = CodeBlock -> code
              [] s = InlineCodeBlock -> code
              [] s = Italic -> [QTextCharFormat EXCEPT !.italic = TRUE]
              [] s = Bold -> [QTextCharFormat EXCEPT !.bold = TRUE]
              [] s = Comment -> [QTextCharFormat EXCEPT !.fg = "gray"]
              [] s = MaskedSyntax -> [QTextCharFormat EXCEPT !.fg = "#cccccc"]
              [] s = Table ->
                    [QTextCharFormat EXCEPT !.fg = "#649449", !.fixed = TRUE,
                                            !.size = FixedFontSize]
              [] s = BlockQuote -> [QTextCharFormat EXCEPT !.fg = "darkRed"]
              [] OTHER -> QTextCharFormat]

(***************************************************************************)
(* QSyntaxHighlighter::setFormat on the format vector fc of the current    *)
(* block: positions outside the text are clipped, a count <= 0 paints      *)
(* nothing.                                                                *)
(***************************************************************************)
setFormat(fc, start, count, f) ==
    IF start < 0 \/ start >= Len(fc) THEN fc
    ELSE [k \in 1..Len(fc) |->
            IF k > start /\ k <= Min(start + count, Len(fc)) THEN f ELSE fc[k]]

(***************************************************************************)
(* The highlighting rules of initHighlightingRules.  A rule names its      *)
(* pattern; GlobalMatch gives the matches QRegularExpression::globalMatch  *)
(* iterates over, each a record of the 0-based start and the length of     *)
(* group 0 (s0, l0) and of group 1 (s1, l1; start -1 when the pattern has  *)
(* no group 1).                                                            *)
(***************************************************************************)
HighlightingRule(state, pattern, capturingGroup, disableIfSet, useState) ==
    [state |-> state, pattern |-> pattern, capturingGroup |-> capturingGroup,
     maskedGroup |-> 0, disableIfCurrentStateIsSet |-> disableIfSet,
     useStateAsCurrentBlockState |-> useState]

\* HighlightingOption::FullyHighlightedBlockQuote in _highlightingOptions
FullyHighlightedBlockQuote == FALSE

highlightingRulesPre ==
    << HighlightingRule(MaskedSyntax, "refLinkIndex", 0, FALSE, FALSE),
       HighlightingRule(List, "unorderedList", 0, FALSE, TRUE),
       HighlightingRule(List, "orderedList", 0, FALSE, TRUE),
       HighlightingRule(BlockQuote, "blockQuote", 0, FALSE, FALSE),
       HighlightingRule(HorizontalRuler, "horizontalRuler", 0, FALSE, FALSE) >>

highlightingRulesAfter ==
    << HighlightingRule(Italic, "italicStar", 1, FALSE, FALSE),
       HighlightingRule(Italic, "italicUnderscore", 1, FALSE, FALSE),
       HighlightingRule(Bold, "boldStar", 1, FALSE, FALSE),
       HighlightingRule(Bold, "boldUnderscore", 1, FALSE, FALSE),
       HighlightingRule(MaskedSyntax, "strikeThrough", 1, FALSE, FALSE),
       HighlightingRule(Link, "url", 0, FALSE, FALSE),
       HighlightingRule(Link, "urlAngle", 1, FALSE, FALSE),
       HighlightingRule(Link, "linkAngleDot", 1, FALSE, FALSE),
       HighlightingRule(Link, "linkTitle", 1, FALSE, FALSE),
       HighlightingRule(Link, "linkEmptyTitle", 1, FALSE, FALSE),
       HighlightingRule(Link, "email", 1, FALSE, FALSE),
       HighlightingRule(Link, "referenceLink", 1, FALSE, FALSE),
       HighlightingRule(Image, "imageText", 1, FALSE, FALSE),
       HighlightingRule(Image, "imageNoText", 1, FALSE, FALSE),
       HighlightingRule(Link, "imageLink", 1, FALSE, FALSE),
       HighlightingRule(Link, "imageLinkNoText", 1, FALSE, FALSE),
       HighlightingRule(TrailingSpace, "trailingSpace", 1, FALSE, FALSE),
       HighlightingRule(InlineCodeBlock, "inlineCode", 1, FALSE, FALSE),
       HighlightingRule(CodeBlock, "indentedCode", 0, TRUE, FALSE),
       HighlightingRule(Comment, "inlineComment", 1, FALSE, FALSE),
       HighlightingRule(Comment, "rmarkdownComment", 1, FALSE, FALSE),
       HighlightingRule(Table, "table", 0, FALSE, FALSE) >>

\* the characters of which every match of a pattern not listed in
\* GlobalMatch holds at least one; the texts of the model hold none of them
MarkupOutsideModel == {"*", "_", "~", "[", "]", "(", ")", ":", ".", "@", "|", "+"}

Match(s0, l0, s1, l1) == [s0 |-> s0, l0 |-> l0, s1 |-> s1, l1 |-> l1]

\* the number of leading characters of text, from 0-based position i, in set
RECURSIVE runLength(_, _, _)
runLength(text, i, set) ==
    IF i < Len(text) /\ text[i + 1] \in set
    THEN 1 + runLength(text, i + 1, set) ELSE 0

\* "^\s*[-*+]\s"
matchUnorderedList(text) ==
    LET k == runLength(text, 0, Whitespace)
    IN  IF k + 2 <= Len(text) /\ text[k + 1] \in {"-", "*", "+"}
           /\ text[k + 2] \in Whitespace
        THEN << Match(0, k + 2, -1, 0) >> ELSE <<>>

\* "^\s*(>\s*)+", or "^\s*(>\s*.+)" with FullyHighlightedBlockQuote
matchBlockQuote(text) ==
    LET k == runLength(text, 0, Whitespace)
        quoted == k < Len(text) /\ text[k + 1] = ">"
    IN  IF ~quoted THEN <<>>
        ELSE IF FullyHighlightedBlockQuote
        THEN IF k + 2 <= Len(text)
             THEN << Match(0, Len(text), k, Len(text) - k) >> ELSE <<>>
        ELSE << Match(0, k + runLength(text, k, Whitespace \cup {">"}), -1, 0) >>

\* "^([*\-_]\s?){3,}$": the number of units "marker, optional blank" that
\* make up the text from position i, or -1 when the text is not made of them
RECURSIVE rulerUnits(_, _)
rulerUnits(text, i) ==
    IF i = Len(text) THEN 0
    ELSE IF text[i + 1] \notin {"*", "-", "_"} THEN -1
    ELSE LET j == IF i + 1 < Len(text) /\ text[i + 2] \in Whitespace
                  THEN i + 2 ELSE i + 1
             rest == rulerUnits(text, j)
         IN  IF rest = -1 THEN -1 ELSE rest + 1

matchHorizontalRuler(text) ==
    IF rulerUnits(text, 0) >= 3 THEN << Match(0, Len(text), -1, 0) >> ELSE <<>>

\* "( +)$"
matchTrailingSpace(text) ==
    LET starts == {i \in 0..(Len(text) - 1) :
                      \A k \in (i + 1)..Len(text) : text[k] = " "}
    IN  IF starts = {} THEN <<>>
        ELSE LET s == CHOOSE i \in starts : \A j \in starts : i <= j
             IN  << Match(s, Len(text) - s, s, Len(text) - s) >>

\* "open(.+?)close" matched globally from position from: each match is the
\* first open at or after from with the nearest close that leaves at least
\* one character between them; the search goes on after the match
RECURSIVE matchDelimited(_, _, _, _)
\* the match that opens at a and closes at e, and those after it
matchClosed(text, open, close, a, e) ==
    IF e = -1 THEN <<>>
    ELSE << Match(a, e + Len(close) - a, a + Len(open), e - a - Len(open)) >>
         \o matchDelimited(text, open, close, e + Len(close))

\* the matches from an open at a on
matchOpened(text, open, close, a) ==
    IF a = -1 THEN <<>>
    ELSE matchClosed(text, open, close, a,
                     indexOf(text, close, a + Len(open) + 1))

matchDelimited(text, open, close, from) ==
    matchOpened(text, open, close, indexOf(text, open, from))

\* "^((\t)|( {4,})).+$"
matchIndentedCode(text) ==
    IF \/ Len(text) >= 2 /\ text[1] = "\t"
       \/ Len(text) >= 5 /\ \A k \in 1..4 : text[k] = " "
    THEN << Match(0, Len(text), 0, IF text[1] = "\t" THEN 1 ELSE
                  Min(runLength(text, 0, {" "}), Len(text) - 1)) >>
    ELSE <<>>

GlobalMatch(pattern, text) ==
    CASE pattern = "unorderedList" -> matchUnorderedList(text)
      [] pattern = "blockQuote" -> matchBlockQuote(text)
      [] pattern = "horizontalRuler" -> matchHorizontalRuler(text)
      [] pattern = "trailingSpace" -> matchTrailingSpace(text)
      [] pattern = "inlineCode" -> matchDelimited(text, <<Backtick>>, <<Backtick>>, 0)
      [] pattern = "indentedCode" -> matchIndentedCode(text)
      [] pattern = "inlineComment" ->
            matchDelimited(text, <<"<", "!", "-", "-">>, <<"-", "-", ">">>, 0)
      [] OTHER -> <<>>

(***************************************************************************)
(* loadCppData: the token tables of the C++ scanner.  "auto" and "asm "    *)
(* are adjacent string literals in the source and so one entry.            *)
(***************************************************************************)
cppTypes ==
    << <<"Q", "S", "t", "r", "i", "n", "g">>, <<"Q", "L", "i", "s", "t">>,
       <<"Q", "V", "e", "c", "t", "o", "r">>, <<"Q", "H", "a", "s", "h">>,
       <<"Q", "M", "a", "p">>, <<"i", "n", "t">>,
       <<"f", "l", "o", "a", "t">>, <<"s", "t", "r", "i", "n", "g">>,
       <<"d", "o", "u", "b", "l", "e">>, <<"l", "o", "n", "g">>,
       <<"v", "e", "c", "t", "o", "r">>, <<"s", "h", "o", "r", "t">>,
       <<"c", "h", "a", "r">>, <<"v", "o", "i", "d">>,
       <<"b", "o", "o", "l">>, <<"w", "c", "h", "a", "r", "_", "t">>,
       <<"c", "l", "a", "s", "s">>, <<"s", "t", "r", "u", "c", "t">>,
       <<"u", "n", "i", "o", "n">>, <<"e", "n", "u", "m">> >>

cppKeywords ==
    << <<"w", "h", "i", "l", "e">>, <<"i", "f">>, <<"f", "o", "r">>,
       <<"d", "o">>, <<"r", "e", "t", "u", "r", "n">>,
       <<"e", "l", "s", "e">>, <<"s", "w", "i", "t", "c", "h">>,
       <<"c", "a", "s", "e">>, <<"b", "r", "e", "a", "k">>,
       <<"c", "o", "n", "t", "i", "n", "u", "e">>,
       <<"n", "a", "m", "e", "s", "p", "a", "c", "e">>,
       <<"u", "s", "i", "n", "g">>,
       <<"u", "n", "s", "i", "g", "n", "e", "d">>,
       <<"c", "o", "n", "s", "t">>, <<"s", "t", "a", "t", "i", "c">>,
       <<"m", "u", "t", "a", "b", "l", "e">>,
       <<"a", "u", "t", "o", "a", "s", "m", " ">>,
       <<"v", "o", "l", "a", "t", "i", "l", "e">>,
       <<"s", "t", "a", "t", "i", "c", "_", "c", "a", "s", "t">>,
       <<"d", "y", "n", "a", "m", "i", "c", "_", "c", "a", "s", "t">>,
       <<"r", "e", "i", "n", "t", "e", "r", "p", "r", "e", "t", "_", "c", "a", "s", "t">>,
       <<"c", "o", "n", "s", "t", "_", "c", "a", "s", "t">>,
       <<"n", "u", "l", "l", "p", "t", "r">>,
       <<"p", "u", "b", "l", "i", "c">>,
       <<"p", "r", "i", "v", "a", "t", "e">>,
       <<"p", "r", "o", "t", "e", "c", "t", "e", "d">>,
       <<"s", "i", "g", "n", "a", "l">>, <<"s", "l", "o", "t">>,
       <<"n", "e", "w">>, <<"d", "e", "l", "e", "t", "e">>,
       <<"o", "p", "e", "r", "a", "t", "o", "r">>,
       <<"t", "e", "m", "p", "l", "a", "t", "e">>, <<"t", "h", "i", "s">>,
       <<"f", "a", "l", "s", "e">>, <<"t", "r", "u", "e">>,
       <<"e", "x", "p", "l", "i", "c", "i", "t", " ">>,
       <<"s", "i", "z", "e", "o", "f">>, <<"t", "r", "y">>,
       <<"c", "a", "t", "c", "h">>, <<"t", "h", "r", "o", "w">> >>

cppPreproc ==
    << <<"i", "f", "n", "d", "e", "f">>, <<"i", "f", "d", "e", "f">>,
       <<"i", "n", "c", "l", "u", "d", "e">>,
       <<"d", "e", "f", "i", "n", "e">>, <<"e", "n", "d", "i", "f">> >>

(***************************************************************************)
(* highlightSyntax.  The scan state is a record: i the loop index, f the   *)
(* working format, fc the format vector, ret whether the function has      *)
(* returned, reads the set of 0-based indices handed to text[...], steps   *)
(* the number of loop iterations begun.  A read outside the text yields    *)
(* the character u, whatever the build finds there.                        *)
(***************************************************************************)
charAt(text, k, u) == IF k >= 0 /\ k < Len(text) THEN text[k + 1] ELSE u

\* the scan gives up (ret stays FALSE) after this many loop iterations
scanFuel(text) == 4 * Len(text) + 8

read(s, k) == [s EXCEPT !.reads = @ \cup {k}]

paint(s, start, count, colour) ==
    LET g == setForeground(s.f, colour)
    IN  [s EXCEPT !.f = g, !.fc = setFormat(s.fc, start, count, g)]

return(s) == [s EXCEPT !.ret = TRUE]

\* "if ( (i+1) >= text.length()) return;" after the opening quote
quoteBoundCheck(text, i) == (i + 1) >= Len(text)

\* a variant of whileBoundCheck that never stops the scan
whileBoundCheckOff(text, i) == FALSE

\* "if (i+1 >= text.length()) return;" at the end of the while body
whileBoundCheck(text, i) == (i + 1) >= Len(text)

\* "(i+1) < text.length() && (i-1) > 0" of the integer literal branch
numberGuard(text, i) == (i + 1) < Len(text) /\ (i - 1) > 0

\* "(i+types[j].length()) < text.length() && i > 0" of the token loops
middleOfWordGuard(text, i, n) == (i + n) < Len(text) /\ i > 0

\* the inner loop of the double-quoted literal: [i, cnt, reads] at its exit
RECURSIVE doubleQuoteLoop(_, _, _, _, _)
doubleQuoteLoop(text, i, cnt, reads, u) ==
    IF ~(i < Len(text)) THEN [i |-> i, cnt |-> cnt, reads |-> reads]
    ELSE IF charAt(text, i, u) = "\""
    THEN [i |-> i + 1, cnt |-> cnt + 1, reads |-> reads \cup {i}]
    ELSE IF (i + 1 + 1) >= Len(text)
    THEN [i |-> i + 1, cnt |-> cnt + 2, reads |-> reads \cup {i}]
    ELSE doubleQuoteLoop(text, i + 1, cnt + 1, reads \cup {i}, u)

\* the inner loop of the single-quoted literal
RECURSIVE singleQuoteLoop(_, _, _, _, _)
singleQuoteLoop(text, i, cnt, reads, u) ==
    IF ~(i < Len(text)) THEN [i |-> i, cnt |-> cnt, reads |-> reads]
    ELSE IF charAt(text, i, u) = "'"
    THEN [i |-> i + 1, cnt |-> cnt + 1, reads |-> reads \cup {i}]
    ELSE IF (i + 1) >= Len(text)
    THEN [i |-> i, cnt |-> cnt + 1, reads |-> reads \cup {i}]
    ELSE singleQuoteLoop(text, i + 1, cnt + 1, reads \cup {i}, u)

\* the string and character literal branches
quoteBranch(s, text, quote, u) ==
    LET pos == s.i
        g == setForeground(s.f, "darkGreen")
        i1 == s.i + 1
    IN  IF quoteBoundCheck(text, i1) THEN return([s EXCEPT !.f = g, !.i = i1])
        ELSE LET r == IF quote = "\""
                      THEN doubleQuoteLoop(text, i1, 1, s.reads, u)
                      ELSE singleQuoteLoop(text, i1, 1, s.reads, u)
             IN  [s EXCEPT !.f = g, !.i = r.i, !.reads = r.reads,
                           !.fc = setFormat(s.fc, pos, r.cnt, g)]

\* "if (text[i] == '/') { ... return; }": line and block comments
slashBranch(s, text, u) ==
    IF (s.i + 1) < Len(text)
    THEN LET c1 == charAt(text, s.i + 1, u)
             s1 == read(s, s.i + 1)
         IN  IF c1 = "/"
             THEN return(paint(s1, s.i, Len(text), "darkGray"))
             ELSE IF c1 = "*"
             THEN LET next == indexOf(text, <<"*", "/">>, 0)
                  IN  IF next = -1
                      THEN return(paint(s1, s.i, Len(text), "darkGray"))
                      ELSE return([paint(s1, s.i, next + 2 - s.i, "darkGray")
                                     EXCEPT !.i = next + 2])
             ELSE return(s1)
    ELSE return(s)

\* the integer literal branch; skip is TRUE when it takes "i++; continue;"
numberBranch(s, text, u) ==
    IF numberGuard(text, s.i)
    THEN LET a == isLetter(charAt(text, s.i + 1, u))
             s1 == read(s, s.i + 1)
             s2 == IF a THEN s1 ELSE read(s1, s.i - 1)
         IN  IF a \/ isLetter(charAt(text, s.i - 1, u))
             THEN [skip |-> TRUE, s |-> [s2 EXCEPT !.i = @ + 1]]
             ELSE [skip |-> FALSE, s |-> paint(s2, s.i, 1, "darkYellow")]
    ELSE [skip |-> FALSE, s |-> paint(s, s.i, 1, "darkYellow")]

\* "while (!text[i].isLetter()) { ... }".  The branch "text[i] == '/' &&
\* text[i+1] == '*'" that follows the '/' branch in the source is never
\* taken and never reads text[i+1]: its first operand is false there.
RECURSIVE whileLoop(_, _, _)

\* the end of the while body, reached with the scan state body.s; body.skip
\* is TRUE when the body has taken "i++; continue;"
whileEnd(body, text, u) ==
    IF body.s.ret THEN body.s
    ELSE IF body.skip THEN whileLoop(body.s, text, u)
    ELSE IF whileBoundCheck(text, body.s.i) THEN return(body.s)
    ELSE whileLoop([body.s EXCEPT !.i = @ + 1], text, u)

\* the branches of the while body on the character c = text[i]
whileBody(s, c, text, u) ==
    IF c = "/" THEN [skip |-> FALSE, s |-> slashBranch(s, text, u)]
    ELSE IF isNumber(c) THEN numberBranch(s, text, u)
    ELSE IF c = "\"" \/ c = "'"
    THEN [skip |-> FALSE, s |-> quoteBranch(s, text, c, u)]
    ELSE [skip |-> FALSE, s |-> s]

\* the loop condition on c = text[i], and the body
whileStep(s, c, text, u) ==
    IF isLetter(c) THEN s ELSE whileEnd(whileBody(s, c, text, u), text, u)

whileLoop(s, text, u) ==
    IF s.ret \/ s.steps > scanFuel(text) THEN s
    ELSE whileStep([read(s, s.i) EXCEPT !.steps = @ + 1],
                   charAt(text, s.i, u), text, u)

\* one of the three "for (int j = 0; ...)" loops over a token table
RECURSIVE tokenLoop(_, _, _, _, _, _)
\* the token tokens[j] matches at i; a is whether a letter follows it
tokenFound(s, text, tokens, j, colour, u, n, guarded, a) ==
    IF guarded /\ (a \/ isLetter(charAt(text, s.i - 1, u)))
    THEN tokenLoop(IF a THEN read(s, s.i + n)
                   ELSE read(read(s, s.i + n), s.i - 1),
                   text, tokens, j + 1, colour, u)
    ELSE tokenLoop([paint(IF guarded THEN read(read(s, s.i + n), s.i - 1)
                          ELSE s,
                          s.i, n, colour)
                      EXCEPT !.i = @ + n],
                   text, tokens, j + 1, colour, u)

tokenLoop(s, text, tokens, j, colour, u) ==
    IF j > Len(tokens) THEN s
    ELSE IF tokens[j] # mid(text, s.i, Len(tokens[j]))
    THEN tokenLoop(s, text, tokens, j + 1, colour, u)
    ELSE tokenFound(s, text, tokens, j, colour, u, Len(tokens[j]),
                    middleOfWordGuard(text, s.i, Len(tokens[j])),
                    isLetter(charAt(text, s.i + Len(tokens[j]), u)))

\* "for (int i=0; i< text.length(); i++) { ... }"
RECURSIVE forLoop(_, _, _, _, _, _)
\* the body of the for loop after its while loop has ended in state w
forBody(w, text, types, keywords, preproc, u) ==
    IF w.ret \/ w.steps > scanFuel(text) THEN w
    ELSE forLoop([tokenLoop(tokenLoop(tokenLoop(w, text, types, 1,
                                                "darkBlue", u),
                                      text, keywords, 1, "cyan", u),
                            text, preproc, 1, "magenta", u)
                    EXCEPT !.i = @ + 1],
                 text, types, keywords, preproc, u)

forLoop(s, text, types, keywords, preproc, u) ==
    IF s.ret \/ s.steps > scanFuel(text) THEN s
    ELSE IF ~(s.i < Len(text)) THEN return(s)
    ELSE forBody(whileLoop([s EXCEPT !.steps = @ + 1], text, u),
                 text, types, keywords, preproc, u)

\* highlightSyntax on the block whose format vector is fc and whose state
\* (currentBlockState) is state; formats is the _formats table
highlightSyntax(fc, text, state, formats, u) ==
    LET f == formats[CodeBlock]
        s0 == [i |-> 0, f |-> f, fc |-> setFormat(fc, 0, Len(text), f),
               ret |-> FALSE, reads |-> {}, steps |-> 0]
        cpp == state = CodeCpp
        \* a token that occurs nowhere in the text matches at no position,
        \* so the token loops are run over the tokens that occur in it
        inText(tokens) == SelectSeq(tokens, LAMBDA t : contains(text, t))
    IN  IF text = <<>>
        THEN [i |-> 0, f |-> f, fc |-> fc, ret |-> TRUE, reads |-> {},
              steps |-> 0]
        ELSE forLoop(s0, text,
                     IF cpp THEN inText(cppTypes) ELSE <<>>,
                     IF cpp THEN inText(cppKeywords) ELSE <<>>,
                     IF cpp THEN inText(cppPreproc) ELSE <<>>, u)

(***************************************************************************)
(* The classification of one block.  It works on a context record c:       *)
(*   state    the user state of every block of the document                *)
(*   fc       the format vector of the current block (formatChanges)       *)
(*   dirty    _dirtyTextBlocks, a sequence of block numbers                *)
(*   formats  _formats                                                     *)
(*   finished _highlightingFinished                                        *)
(*   calls    the blocks highlightBlock was entered for, in order          *)
(*   depth    the number of highlightBlock calls that have not returned    *)
(*   nested   whether highlightBlock was entered while another call ran    *)
(*   appended the blocks addDirtyBlock appended, in order                  *)
(*   taken    the blocks removed from the head of dirty, in order          *)
(*   promoted for every block, the state a setext underline below it gave  *)
(*            it and no re-highlighting by the drain has followed, else 0  *)
(*   queued   whether every block so promoted was in dirty right after     *)
(*   oob      whether the scanner read outside the text                    *)
(*   spans    the formats applied to every block (set by the caller)       *)
(* txt is the text of every block, b the number of the current block       *)
(* (1 is the first block), u what a read outside a text yields.            *)
(***************************************************************************)
RECURSIVE highlightBlock(_, _, _, _)

previousBlockState(c, b) == IF b = 1 THEN -1 ELSE c.state[b - 1]

previousText(txt, b) == IF b = 1 THEN <<>> ELSE txt[b - 1]

nextBlockText(txt, b) == IF b = Len(txt) THEN <<>> ELSE txt[b + 1]

setCurrentBlockState(c, b, newState) == [c EXCEPT !.state[b] = newState]

\* a variant of addDirtyBlock that appends without looking for the block
addDirtyBlockAlways(c, txt, block) ==
    [c EXCEPT !.dirty = Append(@, block), !.appended = Append(@, block)]

\* a variant of addDirtyBlock that re-highlights the block at once
addDirtyBlockDirectly(c, txt, block) ==
    LET r == highlightBlock([c EXCEPT !.fc = [k \in 1..Len(txt[block]) |->
                                                  QTextCharFormat]],
                            txt, block, "")
    IN  [r EXCEPT !.fc = c.fc]

addDirtyBlock(c, txt, block) ==
    IF \E k \in 1..Len(c.dirty) : c.dirty[k] = block THEN c
    ELSE [c EXCEPT !.dirty = Append(@, block), !.appended = Append(@, block)]

isHeadline(state) == state \in {H1, H2, H3, H4, H5, H6}

setHeadingStyles(c, b, format, m, capturedGroup) ==
    LET state == c.state[b]
        f == IF state \in {H1, H2, H3, H4, H5} THEN c.formats[state]
             ELSE c.formats[H6]
        start == IF capturedGroup = 0 THEN m.s0 ELSE m.s1
        length == IF capturedGroup = 0 THEN m.l0 ELSE m.l1
    IN  IF format = c.formats[Italic]
        THEN [c EXCEPT !.fc = setFormat(@, start, length,
                                        [f EXCEPT !.italic = TRUE])]
        ELSE IF format = c.formats[Bold]
        THEN [c EXCEPT !.fc = setFormat(@, start, length, f)]
        ELSE IF format = c.formats[Link] /\ capturedGroup = 1
        THEN [c EXCEPT !.fc = setFormat(@, start, length,
                                        setFontPointSize(c.formats[Link], f.size))]
        ELSE c

\* the body of "while (iterator.hasNext())" for one match m of a rule
applyMatch(c, b, rule, m) ==
    LET format == c.formats[rule.state]
        maskedFormat == c.formats[MaskedSyntax]
        currentMaskedFormat ==
            IF format.size > 0 THEN setFontPointSize(maskedFormat, format.size)
            ELSE maskedFormat
        inHeadline == isHeadline(c.state[b])
                      /\ format # c.formats[InlineCodeBlock]
        start(g) == IF g = 0 THEN m.s0 ELSE m.s1
        length(g) == IF g = 0 THEN m.l0 ELSE m.l1
        c1 == IF rule.capturingGroup > 0 /\ ~inHeadline
              THEN [c EXCEPT !.fc = setFormat(@, start(rule.maskedGroup),
                                              length(rule.maskedGroup),
                                              currentMaskedFormat)]
              ELSE c
    IN  IF inHeadline
        THEN setHeadingStyles(c1, b, format, m, rule.capturingGroup)
        ELSE [c1 EXCEPT !.fc = setFormat(@, start(rule.capturingGroup),
                                         length(rule.capturingGroup), format)]

RECURSIVE applyMatches(_, _, _, _, _)
applyMatches(c, b, rule, ms, k) ==
    IF k > Len(ms) THEN c
    ELSE applyMatches(applyMatch(c, b, rule, ms[k]), b, rule, ms, k + 1)

\* a variant of ruleDisabled that skips no rule
ruleNeverDisabled(rule, currentBlockState) == FALSE

\* "rule.disableIfCurrentStateIsSet && currentBlockState() != NoState"
ruleDisabled(rule, currentBlockState) ==
    rule.disableIfCurrentStateIsSet /\ currentBlockState # NoState

\* the body of "for(const HighlightingRule &rule : rules)" for one rule, ms
\* being the matches of its pattern in the text
applyRule(c, b, rule, ms) ==
    IF ruleDisabled(rule, c.state[b]) THEN c
    ELSE applyMatches(IF ms # <<>> /\ rule.useStateAsCurrentBlockState
                      THEN setCurrentBlockState(c, b, rule.state) ELSE c,
                      b, rule, ms, 1)

\* the loop "for(const HighlightingRule &rule : rules)" from rule r on
RECURSIVE applyRules(_, _, _, _, _)
applyRules(c, rules, text, b, r) ==
    IF r > Len(rules) THEN c
    ELSE applyRules(applyRule(c, b, rules[r],
                              GlobalMatch(rules[r].pattern, text)),
                    rules, text, b, r + 1)

\* a rule whose pattern has no match in the text does nothing, so the loop
\* is run over the rules that have one
highlightAdditionalRules(c, rules, text, b) ==
    applyRules(c,
               SelectSeq(rules,
                         LAMBDA rule : GlobalMatch(rule.pattern, text) # <<>>),
               text, b, 1)

hasOnlyHeadChars(txt, ch) ==
    /\ txt # <<>>
    /\ \A k \in 1..Len(txt) : txt[k] = ch

\* the text starts with 1 to 6 '#' and a space
headingFound(text) ==
    \E n \in 1..6 : startsWith(text, [k \in 1..(n + 1) |->
                                         IF k <= n THEN "#" ELSE " "])

\* the '#' among the first 6 characters
hashCount(text) ==
    Cardinality({k \in 1..Min(6, Len(text)) : text[k] = "#"})

\* a variant of setextCondition that does not look at the previous state
setextConditionAnyState(prevState, level, prevText) == Len(prevText) > 0

\* a variant of setextCondition that does not look at the previous text
setextConditionAnyText(prevState, level, prevText) ==
    prevState = level \/ prevState = NoState

\* "((previousBlockState() == H1) || previousBlockState() == NoState) &&
\* previousText.length() > 0", and the same with H2
setextCondition(prevState, level, prevText) ==
    (prevState = level \/ prevState = NoState) /\ Len(prevText) > 0

\* a variant of atxFormat that masks the hashes and the space after them
atxFormatMaskingSpace(fc, text, count, masked, format) ==
    setFormat(setFormat(fc, 0, Len(text), masked),
              count + 1, Len(text) - count - 1, format)

\* the two setFormat calls of an ATX headline with count hashes
atxFormat(fc, text, count, masked, format) ==
    setFormat(setFormat(fc, 0, Len(text), masked),
              count, Len(text) - count, format)

\* a variant of setextUnderline that goes on to the look-ahead for "===="
setextUnderlineThenLookAhead(c, txt, b, level) ==
    IF hasOnlyHeadChars(nextBlockText(txt, b), "=")
    THEN [c EXCEPT !.fc = setFormat(@, 0, Len(txt[b]), c.formats[H1]),
                   !.state[b] = H1]
    ELSE c

\* the "====" (level H1) and "----" (level H2) branches
setextUnderline(c, txt, b, level) ==
    LET text == txt[b]
        masked == setFontPointSize(c.formats[MaskedSyntax],
                                   c.formats[level].size)
    IN  IF setextCondition(previousBlockState(c, b), level, previousText(txt, b))
        THEN LET c1 == addDirtyBlock(
                           [c EXCEPT !.fc = setFormat(@, 0, Len(text), masked),
                                     !.state[b] = HeadlineEnd,
                                     !.state[b - 1] = level,
                                     !.promoted[b - 1] = level],
                           txt, b - 1)
             IN  [c1 EXCEPT !.queued =
                      @ /\ \E k \in 1..Len(c1.dirty) : c1.dirty[k] = b - 1]
        ELSE c

\* a variant of nextHasHeadChars that finds the underlines of '=' only
nextHasEqualCharsOnly(next, ch) == ch = "=" /\ hasOnlyHeadChars(next, ch)

\* a variant of nextHasHeadChars that never finds an underline
nextHasNoHeadChars(next, ch) == FALSE

\* "nextHasEqualChars" and "nextHasMinusChars"
nextHasHeadChars(next, ch) == hasOnlyHeadChars(next, ch)

highlightHeadline(c, txt, b) ==
    LET text == txt[b]
        count == hashCount(text)
        state == H1 + count - 1
        next == nextBlockText(txt, b)
        lookAhead(d, ch, level) ==
            IF nextHasHeadChars(next, ch)
            THEN [d EXCEPT !.fc = setFormat(@, 0, Len(text), d.formats[level]),
                           !.state[b] = level]
            ELSE d
    IN  IF headingFound(text)
        THEN [c EXCEPT !.fc = atxFormat(@, text, count,
                                  setFontPointSize(c.formats[MaskedSyntax],
                                                   c.formats[state].size),
                                  c.formats[state]),
                       !.state[b] = state]
        ELSE IF hasOnlyHeadChars(text, "=") THEN setextUnderline(c, txt, b, H1)
        ELSE IF hasOnlyHeadChars(text, "-") THEN setextUnderline(c, txt, b, H2)
        ELSE lookAhead(lookAhead(c, "=", H1), "-", H2)

highlightCommentBlock(c, txt, b) ==
    LET text == trimmed(txt[b])
        startText == <<"<", "!", "-", "-">>
        endText == <<"-", "-", ">">>
        paintComment(d) ==
            [d EXCEPT !.fc = setFormat(@, 0, Len(text), d.formats[Comment])]
    IN  IF startsWith(text, startText) /\ contains(text, endText) THEN c
        ELSE IF \/ startsWith(text, startText)
                \/ (~endsWith(text, endText)
                    /\ previousBlockState(c, b) = Comment)
        THEN paintComment(setCurrentBlockState(c, b, Comment))
        ELSE IF endsWith(text, endText) THEN paintComment(c)
        ELSE c

\* "previousBlockState() != CodeBlock && previousBlockState() < 200"
fenceOpens(prevState) == prevState # CodeBlock /\ prevState < 200

\* a variant of fenceCloses that does not close the language blocks
fenceClosesCodeBlockOnly(prevState) == prevState = CodeBlock

\* "previousBlockState() == CodeBlock || previousBlockState() >= 200"
fenceCloses(prevState) == prevState = CodeBlock \/ prevState >= 200

\* a variant of fenceLanguage that takes every tag for cpp
fenceLanguageCpp(text) == CodeCpp

\* a variant of fenceLanguage that knows no language tag
fenceLanguageIgnored(text) == CodeBlock

\* the state an opening fence line gets from the text after the backquotes
fenceLanguage(text) ==
    LET lang == mid(text, 3, Len(text))
    IN  IF lang = <<"c", "p", "p">> THEN CodeCpp
        ELSE IF lang = <<"j", "s">> THEN CodeJs
        ELSE CodeBlock

\* "previousBlockState() == CodeBlock || previousBlockState() == CodeCpp"
insideCodeBlock(prevState) == prevState = CodeBlock \/ prevState = CodeCpp

\* a fence line: the masked format gets the size of the code format and is
\* set on the line
maskFence(c, text, maskedFormat) ==
    [c EXCEPT !.formats[MaskedSyntax] = maskedFormat,
              !.fc = setFormat(@, 0, Len(text), maskedFormat)]

\* the block after highlightSyntax has ended in the scan state r
syntaxHighlighted(c, text, r) ==
    [c EXCEPT !.fc = r.fc,
              !.oob = @ \/ ~r.ret \/ r.reads \ (0..(Len(text) - 1)) # {}]

highlightCodeBlock(c, txt, b, u) ==
    LET text == txt[b]
        prev == previousBlockState(c, b)
    IN  IF startsWith(text, <<Backtick, Backtick, Backtick>>)
        THEN maskFence(IF fenceOpens(prev)
                       THEN setCurrentBlockState(c, b, fenceLanguage(text))
                       ELSE IF fenceCloses(prev)
                       THEN setCurrentBlockState(c, b, CodeBlockEnd)
                       ELSE c,
                       text,
                       setFontPointSize(c.formats[MaskedSyntax],
                                        c.formats[CodeBlock].size))
        ELSE IF insideCodeBlock(prev)
        THEN IF prev = CodeCpp \/ prev = CodeJs
             THEN syntaxHighlighted(
                      setCurrentBlockState(c, b, prev), text,
                      highlightSyntax(c.fc, text, prev, c.formats, u))
             ELSE [c EXCEPT !.fc = setFormat(@, 0, Len(text),
                                             c.formats[CodeBlock]),
                            !.state[b] = CodeBlock]
        ELSE c

\* a variant of hasFrontmatter that finds front matter in every document
hasFrontmatterAlways(txt) == TRUE

\* "document()->firstBlock().text() != "---"" is FALSE
hasFrontmatter(txt) == txt[1] = <<"-", "-", "-">>

\* a variant of highlightFrontmatterBlock without the return for a "---"
\* that neither ends the front matter nor is the first block
highlightFrontmatterBlockRepeated(c, txt, b) ==
    LET text == txt[b]
        masked(d) ==
            [d EXCEPT !.fc = setFormat(@, 0, Len(text), d.formats[MaskedSyntax])]
        foundEnd == previousBlockState(c, b) = FrontmatterBlock
    IN  IF ~hasFrontmatter(txt) THEN c
        ELSE IF text = <<"-", "-", "-">>
        THEN masked(setCurrentBlockState(c, b,
                        IF foundEnd THEN FrontmatterBlockEnd
                        ELSE FrontmatterBlock))
        ELSE IF previousBlockState(c, b) = FrontmatterBlock
        THEN masked(setCurrentBlockState(c, b, FrontmatterBlock))
        ELSE c

highlightFrontmatterBlock(c, txt, b) ==
    LET text == txt[b]
        masked(d) ==
            [d EXCEPT !.fc = setFormat(@, 0, Len(text), d.formats[MaskedSyntax])]
        foundEnd == previousBlockState(c, b) = FrontmatterBlock
    IN  IF ~hasFrontmatter(txt) THEN c
        ELSE IF text = <<"-", "-", "-">>
        THEN IF ~foundEnd /\ b # 1 THEN c
             ELSE masked(setCurrentBlockState(c, b,
                             IF foundEnd THEN FrontmatterBlockEnd
                             ELSE FrontmatterBlock))
        ELSE IF previousBlockState(c, b) = FrontmatterBlock
        THEN masked(setCurrentBlockState(c, b, FrontmatterBlock))
        ELSE c

highlightMarkdown(c, txt, b, u) ==
    LET text == txt[b]
        c1 == IF text # <<>>
              THEN highlightAdditionalRules(
                       highlightHeadline(
                           highlightAdditionalRules(c, highlightingRulesPre,
                                                    text, b),
                           txt, b),
                       highlightingRulesAfter, text, b)
              ELSE c
    IN  highlightFrontmatterBlock(
            highlightCodeBlock(highlightCommentBlock(c1, txt, b), txt, b, u),
            txt, b)

\* a variant of highlightBlock that does not set _highlightingFinished
highlightBlockUnreported(c, txt, b, u) ==
    [highlightMarkdown([c EXCEPT !.calls = Append(@, b),
                                 !.nested = @ \/ c.depth > 0,
                                 !.depth = @ + 1,
                                 !.state[b] = NoState],
                       txt, b, u)
        EXCEPT !.depth = @ - 1]

\* a variant of highlightBlock that keeps the state the block had
highlightBlockWithoutReset(c, txt, b, u) ==
    LET c1 == highlightMarkdown([c EXCEPT !.calls = Append(@, b),
                                          !.nested = @ \/ c.depth > 0,
                                          !.depth = @ + 1],
                                txt, b, u)
    IN  [c1 EXCEPT !.finished = TRUE, !.depth = @ - 1]

highlightBlock(c, txt, b, u) ==
    LET c0 == [c EXCEPT !.calls = Append(@, b),
                        !.nested = @ \/ c.depth > 0,
                        !.depth = @ + 1,
                        !.state[b] = NoState]
        c1 == highlightMarkdown(c0, txt, b, u)
    IN  [c1 EXCEPT !.finished = TRUE, !.depth = @ - 1]

(***************************************************************************)
(* QSyntaxHighlighter, as rehighlightBlock (called by the drain), the      *)
(* document's contentsChange and rehighlight use it: reformatBlock clears  *)
(* the format vector, calls highlightBlock and applies the formats;        *)
(* reformatBlocks does so for the blocks from..last and goes on to the     *)
(* next block for as long as the user state of the block just done has     *)
(* changed.                                                                *)
(***************************************************************************)
\* the formats highlightBlock has set become the formats of the block
applyFormatChanges(r, b) == [r EXCEPT !.spans[b] = r.fc]

reformatBlock(c, txt, b, u) ==
    applyFormatChanges(
        highlightBlock(
            [c EXCEPT !.fc = [k \in 1..Len(txt[b]) |-> QTextCharFormat]],
            txt, b, u),
        b)

RECURSIVE reformatBlocks(_, _, _, _, _, _)
\* the blocks after b, block b having been reformatted from c to r
reformatNext(c, r, txt, b, last, u) ==
    reformatBlocks(r, txt, b + 1, last, r.state[b] # c.state[b], u)

reformatBlocks(c, txt, b, last, force, u) ==
    IF b > Len(txt) \/ ~(b <= last \/ force) THEN c
    ELSE reformatNext(c, reformatBlock(c, txt, b, u), txt, b, last, u)

rehighlightBlock(c, txt, b, u) == reformatBlocks(c, txt, b, b, FALSE, u)

(***************************************************************************)
(* The state of the highlighter and of its document.                       *)
(***************************************************************************)
VARIABLES
    text,                  \* the text of every block of the document
    state,                 \* the user state of every block
    spans,                 \* the formats applied to every block
    dirtyTextBlocks,       \* _dirtyTextBlocks
    formats,               \* _formats
    highlightingFinished,  \* _highlightingFinished
    pc,                    \* "new": constructed, the first rehighlight is due;
                           \* "idle"; "drain": inside timerTick
    edits,                 \* the number of edits made
    emitted,               \* highlightingFinished() signals of the last action
    unreported,            \* highlightBlock has run since the signal was last
                           \* emitted (or since construction)
    op,                    \* the last operation, its argument, and what it found
    hb,                    \* the highlightBlock calls of the last operation
    promoted,              \* see the context record
    settled,               \* the promoted blocks the last drain step re-highlighted
    startQueue,            \* _dirtyTextBlocks when the running drain began
    processed,             \* the blocks the running drain handed to rehighlightBlock
    removed,               \* the blocks the running drain removed from the queue
    appended,              \* the blocks appended to the queue during the drain
    scanText,              \* the text handed to highlightSyntax
    scanOut                \* what highlightSyntax returned for it

vars ==
    << text, state, spans, dirtyTextBlocks, formats, highlightingFinished, pc,
       edits, emitted, unreported, op, hb, promoted, settled, startQueue,
       processed, removed, appended, scanText, scanOut >>

(***************************************************************************)
(* Bounds of the model, and the texts it draws from.                       *)
(***************************************************************************)
\* the number of blocks of the document
NumLines == 3

\* the number of edits of a behaviour
MaxEdits == 1

\* the length of the texts handed to the scanner
MaxScanLen == 4

Fence == <<Backtick, Backtick, Backtick>>

\* the texts of the scheduler specification
Vocabulary == { <<>>, <<"T">>, <<"=">>, <<"-">> }

\* the texts of the classification specification
BlockTexts ==
    { <<>>, <<"T", "i">>, <<"=", "=">>, <<"-", "-", "-">>,
      <<"#", " ", "T">>, <<"#", "#", " ", "T">>,
      Fence, Fence \o <<"c", "p", "p">>, Fence \o <<"j", "s">>,
      <<"i", "n", "t", " ", "x", " ", "=", " ", "1", ";">>,
      <<"<", "!", "-", "-">>, <<"-", "-", ">">>,
      <<"-", " ", "a">>, <<"\t", "-", " ", "a">>, <<"\t", "a">> }

\* what a read outside a text may yield
OutOfRangeChars == {"", "a", "1", "/", "*", "\"", "'"}

ScanAlphabet == {"i", "n", "t", "1", "/", "*", "\"", "'", " "}

RECURSIVE TextsUpTo(_)
TextsUpTo(n) ==
    IF n = 0 THEN { <<>> }
    ELSE LET shorter == TextsUpTo(n - 1)
         IN  shorter \cup {Append(t, ch) : t \in {x \in shorter : Len(x) = n - 1},
                                          ch \in ScanAlphabet}

ScanTexts ==
    TextsUpTo(MaxScanLen)
    \cup { <<"i", "n", "t", " ", "x", " ", "=", " ", "1", ";">>,
           <<"i", "n", "t", " ", "x", " ", "=", " ", "\"", "u", "n", "t">>,
           <<"i", "n", "t", "e", "g", "e", "r">>,
           <<"p", "r", "i", "n", "t">>,
           <<"\"", "*", "/", "\"", " ", "/", "*">> }

Blocks == 1..NumLines

Range(q) == {q[k] : k \in 1..Len(q)}

blank(t) == [k \in 1..Len(t) |-> QTextCharFormat]

noOp == [name |-> "none", arg |-> 0, queue |-> <<>>, before |-> <<>>,
         own |-> <<>>, repeat |-> FALSE]

noCalls == [calls |-> <<>>, nested |-> FALSE, queued |-> TRUE]

noScan == [fc |-> <<>>, ret |-> FALSE, reads |-> {}, steps |-> 0, ran |-> FALSE]

(***************************************************************************)
(* After construction: a document nothing of which is highlighted yet; the *)
(* constructor has started the timer, filled the rule lists and installed  *)
(* the text formats, and QSyntaxHighlighter has scheduled a rehighlight.   *)
(***************************************************************************)
Constructed(texts, scans) ==
    /\ text \in [Blocks -> texts]
    /\ state = [b \in Blocks |-> NoState]
    /\ spans = [b \in Blocks |-> blank(text[b])]
    /\ dirtyTextBlocks = <<>>
    /\ formats = initTextFormats
    /\ highlightingFinished = FALSE
    /\ pc = "new"
    /\ edits = 0
    /\ emitted = 0
    /\ unreported = FALSE
    /\ op = noOp
    /\ hb = noCalls
    /\ promoted = [b \in Blocks |-> 0]
    /\ settled = {}
    /\ startQueue = <<>>
    /\ processed = <<>>
    /\ removed = <<>>
    /\ appended = <<>>
    /\ scanText \in scans
    /\ scanOut = noScan

Init == Constructed(Vocabulary, { <<>> })

\* the context record of the current state; prom is its promoted field
Context(prom) ==
    [state |-> state, spans |-> spans, fc |-> <<>>, dirty |-> dirtyTextBlocks,
     formats |-> formats, finished |-> highlightingFinished, calls |-> <<>>,
     depth |-> 0, nested |-> FALSE, appended |-> <<>>, taken |-> <<>>,
     promoted |-> prom, queued |-> TRUE, oob |-> FALSE]

\* the new state of the highlighter from the context record r
Becomes(r) ==
    /\ state' = r.state
    /\ spans' = r.spans
    /\ dirtyTextBlocks' = r.dirty
    /\ formats' = r.formats
    /\ highlightingFinished' = r.finished
    /\ promoted' = r.promoted
    /\ hb' = [calls |-> r.calls, nested |-> r.nested, queued |-> r.queued]
    /\ unreported' = (unreported \/ r.calls # <<>>)

\* run[u] is the outcome of a handler when reads outside a text yield u: the
\* outcomes are the one outcome r0 when no such read happens, all of them
\* otherwise
OutcomesFrom(r0, run) ==
    IF r0.oob THEN {run[u] : u \in OutOfRangeChars} ELSE {r0}

Outcomes(run) == OutcomesFrom(run[""], run)

drainVars == << startQueue, processed, removed, appended >>

scanVars == << scanText, scanOut >>

(***************************************************************************)
(* The operations.                                                         *)
(***************************************************************************)
\* QSyntaxHighlighter::rehighlight, which the constructor schedules
Rehighlight ==
    /\ pc = "new"
    /\ \E r \in Outcomes([u \in OutOfRangeChars |->
                              reformatBlocks(Context(promoted), text, 1,
                                             NumLines, FALSE, u)]) :
           Becomes(r)
    /\ pc' = "idle"
    /\ op' = [noOp EXCEPT !.name = "rehighlight", !.before = dirtyTextBlocks]
    /\ settled' = {}
    /\ emitted' = 0
    /\ UNCHANGED << text, edits, drainVars, scanVars >>

\* the user replaces the text of block b by t; the document's contentsChange
\* makes QSyntaxHighlighter re-highlight the block
EditLine(b, t) ==
    /\ pc = "idle"
    /\ edits < MaxEdits
    /\ t # text[b]
    /\ text' = [text EXCEPT ![b] = t]
    /\ edits' = edits + 1
    /\ \E r \in Outcomes([u \in OutOfRangeChars |->
                              rehighlightBlock(
                                  Context([k \in Blocks |->
                                              IF k = b \/ k = b - 1 THEN 0
                                              ELSE promoted[k]]),
                                  text', b, u)]) :
           Becomes(r)
    /\ op' = [noOp EXCEPT !.name = "edit", !.arg = b,
                          !.before = dirtyTextBlocks]
    /\ settled' = {}
    /\ emitted' = 0
    /\ UNCHANGED << pc, drainVars, scanVars >>

\* QSyntaxHighlighter::rehighlightBlock called by the host
RehighlightBlock(b) ==
    /\ pc = "idle"
    /\ \E r \in Outcomes([u \in OutOfRangeChars |->
                              rehighlightBlock(Context(promoted), text, b,
                                               u)]) :
           Becomes(r)
    /\ op' = [noOp EXCEPT !.name = "rehighlightBlock", !.arg = b,
                          !.before = dirtyTextBlocks,
                          !.own = << state[b], spans[b] >>,
                          !.repeat = (op.name = "rehighlightBlock"
                                      /\ op.arg = b)]
    /\ settled' = {}
    /\ emitted' = 0
    /\ UNCHANGED << text, pc, edits, drainVars, scanVars >>

AddDirtyBlock(b) ==
    /\ pc = "idle"
    /\ dirtyTextBlocks' = addDirtyBlock(Context(promoted), text, b).dirty
    /\ op' = [noOp EXCEPT !.name = "addDirtyBlock", !.arg = b,
                          !.queue = dirtyTextBlocks]
    /\ hb' = noCalls
    /\ settled' = {}
    /\ emitted' = 0
    /\ UNCHANGED << text, state, spans, formats, highlightingFinished, pc,
                    edits, unreported, promoted, drainVars, scanVars >>

clearDirtyBlocks ==
    /\ pc = "idle"
    /\ dirtyTextBlocks' = <<>>
    /\ promoted' = [b \in Blocks |-> 0]
    /\ op' = [noOp EXCEPT !.name = "clearDirtyBlocks"]
    /\ hb' = noCalls
    /\ settled' = {}
    /\ emitted' = 0
    /\ UNCHANGED << text, state, spans, formats, highlightingFinished, pc,
                    edits, unreported, drainVars, scanVars >>

\* timerTick is entered and calls reHighlightDirtyBlocks
timerTick ==
    /\ pc = "idle"
    /\ pc' = "drain"
    /\ startQueue' = dirtyTextBlocks
    /\ processed' = <<>>
    /\ removed' = <<>>
    /\ appended' = <<>>
    /\ op' = [noOp EXCEPT !.name = "timerTick"]
    /\ hb' = noCalls
    /\ settled' = {}
    /\ emitted' = 0
    /\ UNCHANGED << text, state, spans, dirtyTextBlocks, formats,
                    highlightingFinished, edits, unreported, promoted,
                    scanVars >>

\* a variant of at0 that takes the block queued last
atLast(queue) == queue[Len(queue)]

\* "QTextBlock block = _dirtyTextBlocks.at(0);"
at0(queue) == queue[1]

\* a variant of removeFirst that leaves the queue as it is
removeNothing(c) == [c EXCEPT !.taken = Append(@, Head(c.dirty))]

\* a variant of removeFirst that removes the block queued last
removeLast(c) ==
    [c EXCEPT !.dirty = SubSeq(@, 1, Len(@) - 1),
              !.taken = Append(@, c.dirty[Len(c.dirty)])]

\* "_dirtyTextBlocks.removeFirst();"
removeFirst(c) ==
    [c EXCEPT !.dirty = Tail(@), !.taken = Append(@, Head(c.dirty))]

\* one iteration of the loop of reHighlightDirtyBlocks
reHighlightDirtyBlocks ==
    /\ pc = "drain"
    /\ dirtyTextBlocks # <<>>
    /\ \E block \in {at0(dirtyTextBlocks)} :
           /\ \E r \in Outcomes([u \in OutOfRangeChars |->
                                     removeFirst(rehighlightBlock(
                                         Context([k \in Blocks |->
                                                     IF k = block THEN 0
                                                     ELSE promoted[k]]),
                                         text, block, u))]) :
                  /\ Becomes(r)
                  /\ removed' = removed \o r.taken
                  /\ appended' = appended \o r.appended
           /\ processed' = Append(processed, block)
           /\ settled' = IF promoted[block] # 0
                         THEN {<< block, promoted[block] >>} ELSE {}
    /\ op' = [noOp EXCEPT !.name = "reHighlightDirtyBlocks"]
    /\ emitted' = 0
    /\ UNCHANGED << text, pc, edits, startQueue, scanVars >>

\* the loop of reHighlightDirtyBlocks has ended; the rest of timerTick
highlightingFinishedSignal ==
    /\ pc = "drain"
    /\ dirtyTextBlocks = <<>>
    /\ pc' = "idle"
    /\ highlightingFinished' = FALSE
    /\ emitted' = IF highlightingFinished THEN 1 ELSE 0
    /\ unreported' = (unreported /\ emitted' = 0)
    /\ op' = [noOp EXCEPT !.name = "highlightingFinished"]
    /\ hb' = noCalls
    /\ settled' = {}
    /\ startQueue' = <<>>
    /\ processed' = <<>>
    /\ removed' = <<>>
    /\ appended' = <<>>
    /\ UNCHANGED << text, state, spans, dirtyTextBlocks, formats, edits,
                    promoted, scanVars >>

Next ==
    \/ Rehighlight
    \/ \E b \in Blocks, t \in Vocabulary : EditLine(b, t)
    \/ \E b \in Blocks : AddDirtyBlock(b)
    \/ clearDirtyBlocks
    \/ timerTick
    \/ reHighlightDirtyBlocks
    \/ highlightingFinishedSignal

Spec == Init /\ [][Next]_vars

(***************************************************************************)
(* The scheduler with the fairness of a running timerTick: the loop of     *)
(* reHighlightDirtyBlocks and the rest of timerTick are one call on one    *)
(* thread, so a step of them is taken whenever one is due.  The steps of   *)
(* Next that loopIteration allows are the steps of reHighlightDirtyBlocks, *)
(* which has an outcome whenever its guard holds, so the first condition   *)
(* is the weak fairness of reHighlightDirtyBlocks, stated on the two       *)
(* variables that tell its steps.                                          *)
(***************************************************************************)
loopIteration ==
    /\ pc = "drain"
    /\ dirtyTextBlocks # <<>>
    /\ pc' = pc
    /\ processed' = Append(processed, at0(dirtyTextBlocks))

Fairness ==
    /\ WF_<<pc, processed>>(loopIteration)
    /\ WF_vars(highlightingFinishedSignal)

SpecDrain == Init /\ [][Next]_vars /\ Fairness

(***************************************************************************)
(* The classification specification: any document over BlockTexts, its     *)
(* first rehighlight, re-highlighting of single blocks, and timer ticks.   *)
(***************************************************************************)
InitBlocks == Constructed(BlockTexts, { <<>> })

NextBlocks ==
    \/ Rehighlight
    \/ \E b \in Blocks : RehighlightBlock(b)
    \/ timerTick
    \/ reHighlightDirtyBlocks
    \/ highlightingFinishedSignal

SpecBlocks == InitBlocks /\ [][NextBlocks]_vars

(***************************************************************************)
(* The scanner specification: highlightSyntax on any text over             *)
(* ScanAlphabet of a block in state CodeCpp.                               *)
(***************************************************************************)
InitScan == Constructed({ <<>> }, ScanTexts)

Scanned(r) ==
    [fc |-> r.fc, ret |-> r.ret, reads |-> r.reads, steps |-> r.steps,
     ran |-> TRUE]

HighlightSyntax ==
    /\ ~scanOut.ran
    /\ LET run(u) == highlightSyntax(blank(scanText), scanText, CodeCpp,
                                     formats, u)
           r0 == run("")
       IN  IF r0.ret /\ r0.reads \subseteq 0..(Len(scanText) - 1)
           THEN scanOut' = Scanned(r0)
           ELSE \E u \in OutOfRangeChars : scanOut' = Scanned(run(u))
    /\ UNCHANGED << text, state, spans, dirtyTextBlocks, formats,
                    highlightingFinished, pc, edits, emitted, unreported, op,
                    hb, promoted, settled, drainVars, scanText >>

NextScan == HighlightSyntax

SpecScan == InitScan /\ [][NextScan]_vars

(***************************************************************************)
(* The properties of the dirty-block scheduler.                            *)
(***************************************************************************)
NoDuplicates(q) == \A i, j \in 1..Len(q) : q[i] = q[j] => i = j

Count(q, x) == Cardinality({k \in 1..Len(q) : q[k] = x})

\* C1: no block occurs more than once in _dirtyTextBlocks, whatever the
\* operations so far; and addDirtyBlock for a block that is already in the
\* queue leaves the queue as it was.
C1_DirtyQueueUnique ==
    /\ NoDuplicates(dirtyTextBlocks)
    /\ (op.name = "addDirtyBlock" /\ op.arg \in Range(op.queue))
           => dirtyTextBlocks = op.queue

\* addDirtyBlock has just been called for a block that was pending, with
\* another block pending too
C1_Witness ==
    /\ op.name = "addDirtyBlock"
    /\ op.arg \in Range(op.queue)
    /\ Len(op.queue) >= 2

\* C2 (as stated): when a drain has emptied the queue, every block that was
\* pending when it began has been handed to rehighlightBlock by the drain
\* exactly once.
C2_ExactlyOncePerDrain ==
    (pc = "drain" /\ dirtyTextBlocks = <<>>)
        => \A b \in Range(startQueue) : Count(processed, b) = 1

\* C2 (amended): a block pending when the drain began was pending once,
\* however often addDirtyBlock was called for it, and the drain hands it to
\* rehighlightBlock once plus once for every time it is appended again
\* during the drain after its removal; so at the end of the drain it has
\* been re-highlighted at least once.
C2_OncePerQueueEntry ==
    pc = "drain"
        => \A b \in Range(startQueue) :
               /\ Count(startQueue, b) = 1
               /\ Count(processed \o dirtyTextBlocks, b) = 1 + Count(appended, b)
               /\ dirtyTextBlocks = <<>> => Count(processed, b) >= 1

\* a drain has ended in which a block pending at its start was re-highlighted
\* twice, a block processed after it having appended it again
C2_Witness ==
    /\ pc = "drain"
    /\ dirtyTextBlocks = <<>>
    /\ Len(startQueue) >= 2
    /\ \E b \in Range(startQueue) : Count(processed, b) = 2

\* C3: a drain hands the blocks to rehighlightBlock in the order in which
\* they entered the queue (those pending at its start, then those appended
\* during it), and the block removed after each step is the block that was
\* just re-highlighted.
C3_FifoOrder ==
    pc = "drain"
        => /\ processed \o dirtyTextBlocks = startQueue \o appended
           /\ removed = processed

\* a drain has re-highlighted two different blocks that were pending at its
\* start, and a third one is still waiting
C3_Witness ==
    /\ pc = "drain"
    /\ Len(startQueue) >= 3
    /\ Len(processed) >= 2
    /\ processed[1] # processed[2]
    /\ SubSeq(startQueue, 1, 2) = SubSeq(processed, 1, 2)
    /\ dirtyTextBlocks # <<>>

\* C4: highlightBlock is never entered while another highlightBlock call is
\* running; a block promoted by a setext underline is in the queue when the
\* promotion is done, and addDirtyBlock classifies nothing; blocks leave the
\* queue only in the drain that timerTick starts.
C4_NoSynchronousReclassification ==
    /\ ~hb.nested
    /\ hb.queued
    /\ op.name = "addDirtyBlock" => hb.calls = <<>>
    /\ (op.name \in {"rehighlight", "edit", "rehighlightBlock"}
            /\ op.before # <<>>)
           => /\ Len(dirtyTextBlocks) >= Len(op.before)
              /\ SubSeq(dirtyTextBlocks, 1, Len(op.before)) = op.before

\* a setext underline has just promoted its previous block, outside a drain:
\* the previous block is pending and was not classified after the underline
C4_Witness ==
    /\ op.name \in {"rehighlight", "edit"}
    /\ \E b \in Blocks :
           /\ promoted[b] # 0
           /\ b \in Range(dirtyTextBlocks)
           /\ hb.calls # <<>>
           /\ hb.calls[Len(hb.calls)] = b + 1
(***************************************************************************)
(* The properties of the classification of a block.                        *)
(***************************************************************************)
\* the format vector fc holds the format f at the 1-based positions from..to
Covers(fc, from, to, f) == \A k \in from..to : fc[k] = f

\* the masked-syntax format with the font size of the format of a state
maskedFor(s) == setFontPointSize(formats[MaskedSyntax], formats[s].size)

\* block b classified when its state is s
Classify(b, s) ==
    reformatBlock([Context(promoted) EXCEPT !.state[b] = s], text, b, "")

\* C5: classifying a block twice in a row gives the spans and the state of
\* the first time, and the spans and the state a classification gives do
\* not depend on the state the block had before.
C5_Idempotent ==
    /\ (op.name = "rehighlightBlock" /\ op.repeat)
           => << state[op.arg], spans[op.arg] >> = op.own
    /\ op.name = "rehighlight"
           => \A b \in Blocks :
                  \A once \in {Classify(b, state[b])} :
                      /\ \A twice \in {reformatBlock(once, text, b, "")} :
                             /\ twice.state[b] = once.state[b]
                             /\ twice.spans[b] = once.spans[b]
                      /\ \A s \in {NoState, H1, Comment, CodeCpp} :
                             \A other \in {Classify(b, s)} :
                                 /\ other.state[b] = once.state[b]
                                 /\ other.spans[b] = once.spans[b]

\* a setext underline below a non-empty block has been classified twice in a
\* row by rehighlightBlock
C5_Witness ==
    /\ op.name = "rehighlightBlock"
    /\ op.repeat
    /\ op.arg > 1
    /\ state[op.arg] = HeadlineEnd
    /\ op.own = << state[op.arg], spans[op.arg] >>

\* the text is k '#', a space, and a title without '#'
isAtxLine(t, k) ==
    /\ Len(t) >= k + 2
    /\ \A i \in 1..k : t[i] = "#"
    /\ t[k + 1] = " "
    /\ \A i \in (k + 2)..Len(t) : t[i] # "#"

overridesHeading(b) ==
    b > 1 /\ \/ state[b - 1] \in {Comment, CodeBlock, CodeCpp}
             \/ (hasFrontmatter(text) /\ state[b - 1] = FrontmatterBlock)

plainText(t) ==
    /\ ~hasOnlyHeadChars(t, "=")
    /\ ~hasOnlyHeadChars(t, "-")
    /\ ~headingFound(t)
    /\ ~endsWith(trimmed(t), <<"-", "-", ">">>)
    /\ \A k \in 1..Len(highlightingRulesAfter) :
           \/ highlightingRulesAfter[k].pattern \in {"indentedCode", "trailingSpace"}
           \/ GlobalMatch(highlightingRulesAfter[k].pattern, t) = <<>>

CppFence == Fence \o <<"c", "p", "p">>

IntXIs1 == <<"i", "n", "t", " ", "x", " ", "=", " ", "1", ";">>

\* C8: in a document whose first block is not "---", a cpp fence that does
\* not follow a block inside code has state CodeCpp and the masked-syntax
\* format over its text; a block after a block in state CodeCpp has state
\* CodeCpp when it does not start with a fence (an empty block too) and
\* state CodeBlockEnd when it does; and in the block "int x = 1;" inside
\* the fence "int" has the colour of a type and "1" that of a number.
C8_CppFenceRoundTrip ==
    (pc # "new" /\ ~hasFrontmatter(text))
        => \A b \in Blocks :
               /\ (text[b] = CppFence /\ fenceOpens(previousBlockState([state |-> state], b)))
                      => /\ state[b] = CodeCpp
                         /\ Covers(spans[b], 1, Len(text[b]), maskedFor(CodeBlock))
               /\ (b > 1 /\ state[b - 1] = CodeCpp)
                      => /\ state[b] = IF startsWith(text[b], Fence)
                                       THEN CodeBlockEnd ELSE CodeCpp
                         /\ text[b] = IntXIs1
                                => /\ \A k \in 1..3 : spans[b][k].fg = "darkBlue"
                                   /\ spans[b][9].fg = "darkYellow"
                                   /\ \A k \in {4, 5, 6, 7, 8, 10} :
                                          spans[b][k] = formats[CodeBlock]

\* the document is the cpp fence, "int x = 1;" and the closing fence, and it
\* has been classified
C8_Witness ==
    /\ pc = "idle"
    /\ text = << CppFence, IntXIs1, Fence >>
    /\ state = << CodeCpp, CodeCpp, CodeBlockEnd >>

(***************************************************************************)
(* The properties of the scanner.                                          *)
(***************************************************************************)
\* C9: highlightSyntax returns for every text, and every index it hands to
\* text[...] is at least 0 and less than the length of the text.
C9_ScannerTotalInRange ==
    scanOut.ran
        => /\ scanOut.ret
           /\ scanOut.reads \subseteq 0..(Len(scanText) - 1)

\* the scan of a text that ends in '/', in a quote or in a digit has
\* returned, having read the last character of the text
C9_Witness ==
    /\ scanOut.ran
    /\ scanOut.ret
    /\ Len(scanText) >= 2
    /\ scanText[Len(scanText)] \in {"/", "\"", "'", "1"}
    /\ (Len(scanText) - 1) \in scanOut.reads

\* the 0-based position of the first quote of the text, when nothing but
\* letters and blanks comes before it; -1 when there is none
firstQuote(t) ==
    LET at == {p \in 0..(Len(t) - 1) :
                  /\ t[p + 1] \in {"\"", "'"}
                  /\ \A k \in 1..p : isLetter(t[k]) \/ t[k] = " "}
    IN  IF at = {} THEN -1 ELSE CHOOSE p \in at : \A q \in at : p <= q

\* the 0-based position where the literal that opens at p ends: that of the
\* next quote of the same kind, or the last position of the text
literalEnd(t, p) ==
    LET closing == {q \in (p + 1)..(Len(t) - 1) : t[q + 1] = t[p + 1]}
    IN  IF closing = {} THEN Len(t) - 1
        ELSE CHOOSE q \in closing : \A r \in closing : q <= r

\* C10: the first literal of a scanned text, when only letters and blanks
\* come before it, has the colour of a string from its opening quote to its
\* closing quote, or to the end of the text when it is not closed.
C10_StringLiteralSpan ==
    (scanOut.ran /\ firstQuote(scanText) # -1)
        => \A k \in firstQuote(scanText)..literalEnd(scanText, firstQuote(scanText)) :
               scanOut.fc[k + 1].fg = "darkGreen"

(***************************************************************************)
(* The properties of front matter, the completion signal and the style     *)
(* table.                                                                  *)
(***************************************************************************)
FrontmatterMark == <<"-", "-", "-">>

FrontmatterStates == {FrontmatterBlock, FrontmatterBlockEnd}

\* block b classified when the state of the block before it is p
ClassifyAfter(b, p) ==
    reformatBlock([Context(promoted) EXCEPT !.state[b - 1] = p], text, b, "")

\* the states a block before the classified one is tried with
PreviousStates ==
    {NoState, H1, H2, HeadlineEnd, Comment, CodeBlock, CodeBlockEnd, CodeCpp,
     CodeJs, FrontmatterBlock, FrontmatterBlockEnd, List}

\* C11: when the first line of the document is not "---", no line has a
\* front-matter state after it was classified, and classifying any line
\* after any state of the line before it gives it no front-matter state.
C11_FrontmatterOnlyAtStart ==
    text[1] # FrontmatterMark
        => /\ \A k \in 1..Len(hb.calls) :
                  state[hb.calls[k]] \notin FrontmatterStates
           /\ op.name = "rehighlight"
                  => \A b \in Blocks \ {1}, p \in PreviousStates :
                         ClassifyAfter(b, p).state[b] \notin FrontmatterStates

\* a document that does not start with "---" has a later line "---", which
\* has been classified
C11_Witness ==
    /\ text[1] # FrontmatterMark
    /\ op.name = "rehighlight"
    /\ \E k \in 1..Len(hb.calls) :
           /\ hb.calls[k] > 1
           /\ text[hb.calls[k]] = FrontmatterMark

\* C12: the step that ends a timer tick emits highlightingFinished once when
\* highlightBlock has run since the signal was last emitted and does not
\* emit it otherwise, after it no classification is unreported, and no
\* other step emits the signal.
C12_CompletionSignal ==
    [][/\ (pc = "drain" /\ pc' = "idle")
           => /\ emitted' = (IF unreported THEN 1 ELSE 0)
              /\ ~unreported'
       /\ ~(pc = "drain" /\ pc' = "idle") => emitted' = 0]_vars

\* a timer tick has ended and has emitted the signal for an edit
C12_Witness ==
    /\ op.name = "highlightingFinished"
    /\ emitted = 1
    /\ edits > 0
    /\ ~unreported

\* C13: classification leaves the style table as initTextFormats installed
\* it (the model has no other operation that installs styles).
C13_StyleTableUnchanged == formats = initTextFormats

(***************************************************************************)
(* The properties of one classification and of the drain.                  *)
(***************************************************************************)
\* the heading level an underline of the character ch promotes to
underlineLevel(ch) == IF ch = "=" THEN H1 ELSE H2

\* the outcome r of classifying the underline b of level lv after the
\* state p of the line before it
underlineEffect(r, b, p, lv) ==
    IF (p = NoState \/ p = lv) /\ text[b - 1] # <<>>
    THEN /\ r.state[b] = HeadlineEnd
         /\ r.state[b - 1] = lv
         /\ Covers(r.spans[b], 1, Len(text[b]), maskedFor(lv))
         /\ \E k \in 1..Len(r.dirty) : r.dirty[k] = b - 1
    ELSE /\ r.state[b - 1] = p
         /\ r.dirty = dirtyTextBlocks

\* C14: classifying a line of only '=' (of only '-') after a non-empty line
\* of state NoState or H1 (H2) gives the line HeadlineEnd and the masked
\* format, the line before it H1 (H2) and a place in the dirty queue;
\* after any other line it leaves the line before it and the queue alone.
C14_SetextUnderlineEffect ==
    op.name \in {"rehighlight", "highlightingFinished"}
        => \A b \in Blocks \ {1}, ch \in {"=", "-"} :
               hasOnlyHeadChars(text[b], ch)
                   => \A p \in PreviousStates :
                          \A r \in {ClassifyAfter(b, p)} :
                              underlineEffect(r, b, p, underlineLevel(ch))

\* the first rehighlight has classified a line of '=' below a non-empty line
C14_Witness ==
    /\ op.name = "rehighlight"
    /\ \E b \in Blocks \ {1} :
           /\ hasOnlyHeadChars(text[b], "=")
           /\ text[b - 1] # <<>>
           /\ state[b] = HeadlineEnd
           /\ state[b - 1] = H1
           /\ b - 1 \in Range(dirtyTextBlocks)
           /\ Covers(spans[b], 1, Len(text[b]), maskedFor(H1))

\* the outcome r of classifying block b leaves the other blocks alone, but
\* for the state p of the block before b, which may have become H1 or H2
\* when it was that level or NoState
frameOf(r, b, p) ==
    /\ \A k \in Blocks \ {b} : r.spans[k] = spans[k]
    /\ \A k \in Blocks \ {b, b - 1} : r.state[k] = state[k]
    /\ b > 1 => \/ r.state[b - 1] = p
                \/ r.state[b - 1] = H1 /\ p \in {NoState, H1}
                \/ r.state[b - 1] = H2 /\ p \in {NoState, H2}

\* C15: classifying a line changes the state and the spans of no other
\* line, except that the state of the line before it may become H1 when it
\* was NoState or H1, or H2 when it was NoState or H2.
C15_ClassificationFrame ==
    op.name \in {"rehighlight", "highlightingFinished"}
        => /\ \A r \in {Classify(1, state[1])} : frameOf(r, 1, NoState)
           /\ \A b \in Blocks \ {1}, p \in PreviousStates :
                  \A r \in {ClassifyAfter(b, p)} : frameOf(r, b, p)

\* the first rehighlight has classified a line of '-' that has made the
\* line before it an H2 heading
C15_Witness ==
    /\ op.name = "rehighlight"
    /\ \E b \in Blocks \ {1} :
           /\ hasOnlyHeadChars(text[b], "-")
           /\ promoted[b - 1] = H2
           /\ state[b - 1] = H2
           /\ b \in Range(hb.calls)

\* C16: when the loop of reHighlightDirtyBlocks has ended, the queue is
\* empty, every block appended to it during the drain has been handed to
\* rehighlightBlock by the drain, and no block that a setext underline has
\* promoted is left without the reclassification that was asked for it.
C16_DirtyDuringDrainProcessed ==
    (pc = "drain" /\ dirtyTextBlocks = <<>>)
        => /\ processed = startQueue \o appended
           /\ \A k \in Blocks : promoted[k] = 0

\* the most blocks a drain hands to rehighlightBlock: every block once, and
\* once more when an underline below it has queued it again
DrainBound == 2 * NumLines

\* C17: a drain hands at most DrainBound blocks to rehighlightBlock, and
\* every drain that has begun reaches the end of timerTick.
C17_DrainTerminates ==
    /\ [](Len(processed) <= DrainBound)
    /\ (pc = "drain") ~> (pc = "idle")

\* a drain has emptied the queue after a block it had removed was queued
\* again by an underline it re-highlighted
C17_Witness ==
    /\ pc = "drain"
    /\ dirtyTextBlocks = <<>>
    /\ appended # <<>>
    /\ Len(processed) > Len(startQueue)
    /\ \E k \in 1..Len(startQueue) : startQueue[k] \in Range(appended)

(***************************************************************************)
(* The properties of code blocks and comment blocks.                       *)
(***************************************************************************)
\* the states inside a code block: CodeBlock and the languages
InsideCode == {CodeBlock, CodeCpp, CodeJs}

\* C18: after the first rehighlight, a line that does not start with a
\* fence and follows a line whose state is inside code has that state.
C18_CodeBlockInheritance ==
    op.name = "rehighlight"
        => \A b \in Blocks \ {1} :
               (~startsWith(text[b], Fence) /\ state[b - 1] \in InsideCode)
                   => state[b] = state[b - 1]

\* fence lines: no tag, the two languages, another tag, and a tag that only
\* starts like a language
FenceTexts ==
    { Fence, Fence \o <<"c", "p", "p">>, Fence \o <<"j", "s">>,
      Fence \o <<"p", "y">>, Fence \o <<"c", "p", "p", " ">> }

\* the state the claim gives a fence line t after the state p
fenceState(t, p) ==
    IF p = CodeBlock \/ p >= 200 THEN CodeBlockEnd
    ELSE IF SubSeq(t, 4, Len(t)) = <<"c", "p", "p">> THEN CodeCpp
    ELSE IF SubSeq(t, 4, Len(t)) = <<"j", "s">> THEN CodeJs
    ELSE CodeBlock

\* block b classified when its text is t and the state of the block before
\* it, if there is one, is p
ClassifyText(b, t, p) ==
    reformatBlock([Context(promoted) EXCEPT
                       !.state = [k \in Blocks |->
                                     IF k = b - 1 THEN p ELSE state[k]]],
                  [text EXCEPT ![b] = t], b, "")

\* C19: in a document whose first line is not "---", a fence line, with
\* any of the tags of FenceTexts in the place of its own, ends with
\* CodeBlockEnd after CodeBlock or a state from 200 on, and otherwise with
\* CodeCpp for the tag cpp, CodeJs for the tag js and CodeBlock for any
\* other tag or none; a line that is no fence has no code state after a
\* line of state CodeBlockEnd.
C19_FenceTransition ==
    (op.name = "rehighlight" /\ text[1] # FrontmatterMark)
        => /\ \A b \in Blocks, t \in FenceTexts :
                  startsWith(text[b], Fence)
                      => IF b = 1
                         THEN ClassifyText(1, t, -1).state[1]
                                  = fenceState(t, -1)
                         ELSE \A p \in PreviousStates :
                                  ClassifyText(b, t, p).state[b]
                                      = fenceState(t, p)
           /\ \A b \in Blocks \ {1} :
                  ~startsWith(text[b], Fence)
                      => ClassifyAfter(b, CodeBlockEnd).state[b]
                             \notin InsideCode

\* the first rehighlight has opened a block with a fence and closed it with
\* the next, and the line after it has no code state
C19_Witness ==
    /\ op.name = "rehighlight"
    /\ text[1] = Fence
    /\ text[2] = Fence
    /\ ~startsWith(text[3], Fence)
    /\ state[1] = CodeBlock
    /\ state[2] = CodeBlockEnd
    /\ state[3] \notin InsideCode

CommentStart == <<"<", "!", "-", "-">>

CommentEnd == <<"-", "-", ">">>

\* C20: after the first rehighlight, a line after a line of state Comment
\* whose trimmed text does not end with the close marker, and a line whose
\* trimmed text starts with the open marker and has no close marker, has
\* the state Comment.
C20_CommentContinuation ==
    op.name = "rehighlight"
        => \A b \in Blocks :
               (\/ /\ b > 1
                   /\ state[b - 1] = Comment
                   /\ ~endsWith(trimmed(text[b]), CommentEnd)
                \/ /\ startsWith(trimmed(text[b]), CommentStart)
                   /\ ~contains(trimmed(text[b]), CommentEnd))
                   => state[b] = Comment

(***************************************************************************)
(* The properties of headings.                                             *)
(***************************************************************************)
\* ATX lines: one, two and six hashes, and one hash with another hash
\* after the space, among the first six characters and beyond them
AtxTexts ==
    { <<"#", " ", "T">>, <<"#", "#", " ", "T">>,
      <<"#", "#", "#", "#", "#", "#", " ", "T">>,
      <<"#", " ", "#", "T">>, <<"#", " ", "T", "i", "t", "l", "#">> }

\* the hashes a text starts with
leadingHashes(t) == runLength(t, 0, {"#"})

\* C21: an ATX line, with any of the texts of AtxTexts in the place of its
\* own, classified after a line of state NoState (or as the first line),
\* has the heading state of the number of its leading hashes.
C21_AtxLevel ==
    op.name = "rehighlight"
        => \A b \in Blocks, t \in AtxTexts :
               headingFound(text[b])
                   => ClassifyText(b, t, NoState).state[b]
                          = H1 + leadingHashes(t) - 1

\* the text consists only of '=' or only of '-'
isUnderline(t) == hasOnlyHeadChars(t, "=") \/ hasOnlyHeadChars(t, "-")

\* no position of the format vector fc holds the format f
Nowhere(fc, f) == \A k \in 1..Len(fc) : fc[k] # f

\* the outcome r of classifying the underline b is no look-ahead heading
notLookedAhead(r, b) ==
    /\ r.state[b] \notin {H1, H2}
    /\ Nowhere(r.spans[b], formats[H1])
    /\ Nowhere(r.spans[b], formats[H2])

\* the outcome r of classifying the ATX line b after the state p is no
\* underline, and after NoState it is the heading of its hashes, whatever
\* the next line is
notUnderlined(r, b, p) ==
    /\ r.state[b] # HeadlineEnd
    /\ p = NoState => r.state[b] = H1 + leadingHashes(text[b]) - 1
    /\ r.dirty = dirtyTextBlocks
    /\ b > 1 => r.state[b - 1] = p

\* C22: classifying a line of only '=' or only '-' never gives it the state
\* or the format of H1 or H2, whatever the next line and the line before
\* are, and classifying an ATX line never gives it HeadlineEnd, changes
\* the state of the line before it or the dirty queue.
C22_HeadingPrecedence ==
    op.name = "rehighlight"
        => \A b \in Blocks, p \in PreviousStates :
               /\ isUnderline(text[b])
                      => \A r \in {ClassifyText(b, text[b], p)} :
                             notLookedAhead(r, b)
               /\ headingFound(text[b])
                      => \A r \in {ClassifyText(b, text[b], p)} :
                             notUnderlined(r, b, p)

\* the first rehighlight has classified an underline as first line, above
\* another underline: the look-ahead has not painted it, the underline
\* below has promoted it
C22_Witness ==
    /\ op.name = "rehighlight"
    /\ hasOnlyHeadChars(text[1], "=")
    /\ hasOnlyHeadChars(text[2], "=")
    /\ Nowhere(spans[1], formats[H1])
    /\ promoted[1] = H1
    /\ state[2] = HeadlineEnd

\* block b is a non-empty line that is no ATX heading, no underline, no
\* fence and no comment start, above an underline
aboveUnderline(b) ==
    /\ b < NumLines
    /\ text[b] # <<>>
    /\ ~headingFound(text[b])
    /\ ~isUnderline(text[b])
    /\ ~startsWith(text[b], Fence)
    /\ ~startsWith(text[b], CommentStart)
    /\ isUnderline(text[b + 1])

\* the states of the line before after which the look-ahead is claimed
OutsideBlocks ==
    PreviousStates \ {CodeBlock, CodeCpp, Comment, FrontmatterBlock}

\* the outcome r of classifying block b is the heading of the underline
\* below it, over its whole text
lookedAhead(r, b) ==
    /\ r.state[b] = underlineLevel(text[b + 1][1])
    /\ Covers(r.spans[b], 1, Len(text[b]),
              formats[underlineLevel(text[b + 1][1])])

isIndented(t) == matchIndentedCode(t) # <<>>

\* the outcome r of classifying the indented line b after NoState: the rule
\* has painted the line when its state is NoState and has not painted
\* otherwise, a list item has the state List unless the look-ahead has
\* made it a heading, and the rule has given the line no code state
indentedYield(r, b) ==
    /\ r.state[b] # NoState => Nowhere(r.spans[b], formats[CodeBlock])
    /\ r.state[b] = NoState
           => Covers(r.spans[b], 1, Len(text[b]), formats[CodeBlock])
    /\ matchUnorderedList(text[b]) # <<>> => r.state[b] \in {List, H1, H2}
    /\ (matchUnorderedList(text[b]) # <<>>
           /\ ~isUnderline(nextBlockText(text, b))) => r.state[b] = List
    /\ r.state[b] \notin InsideCode

TokenColours == {"darkBlue", "cyan", "magenta"}

CppTokens == Range(cppTypes) \cup Range(cppKeywords) \cup Range(cppPreproc)

\* the n characters of t from the 0-based position i have a letter before
\* them or a letter after them
insideIdentifier(t, i, n) ==
    \/ i > 0 /\ isLetter(t[i])
    \/ (i + n) < Len(t) /\ isLetter(t[i + n + 1])

\* C25: where an entry of the token tables stands in the scanned text with
\* a letter before it or a letter after it, none of its characters has the
\* colour of a token.
C25_WholeTokenMatch ==
    scanOut.ran
        => \A tok \in CppTokens :
               \A i \in 0..(Len(scanText) - Len(tok)) :
                   (mid(scanText, i, Len(tok)) = tok
                       /\ insideIdentifier(scanText, i, Len(tok)))
                       => \A k \in (i + 1)..(i + Len(tok)) :
                              scanOut.fc[k].fg \notin TokenColours

\* a string literal that holds the end of a block comment, and a blank
ClosedLiteral == <<"\"", "*", "/", "\"", " ">>

\* the 0-based position where the scan of t meets its first "/*": before
\* it stand only blanks and '*', which the scan steps over, or the literal
\* ClosedLiteral; -1 when there is none
blockCommentAt(t) ==
    LET at == {p \in 0..(Len(t) - 2) :
                  /\ t[p + 1] = "/"
                  /\ t[p + 2] = "*"
                  /\ \/ \A k \in 1..p : t[k] \in {" ", "*"}
                     \/ SubSeq(t, 1, p) = ClosedLiteral}
    IN  IF at = {} THEN -1 ELSE CHOOSE p \in at : \A q \in at : p <= q

\* the 0-based position after the comment that opens at p: after the first
\* "*/" at or after p + 2, or the end of the text
blockCommentEnd(t, p) ==
    IF indexOf(t, <<"*", "/">>, p + 2) = -1 THEN Len(t)
    ELSE indexOf(t, <<"*", "/">>, p + 2) + 2

\* C26: the block comment that the scan meets at position i has the colour
\* of a comment from i to the end of the first "*/" at or after i + 2, or
\* to the end of the text when there is none, and nothing after it has,
\* whatever stands before i.
C26_BlockCommentSpan ==
    (scanOut.ran /\ blockCommentAt(scanText) # -1)
        => \A k \in blockCommentAt(scanText)..(Len(scanText) - 1) :
               (scanOut.fc[k + 1].fg = "darkGray")
                   <=> (k < blockCommentEnd(scanText,
                                            blockCommentAt(scanText)))

(***************************************************************************)
(* The shape of the front matter.                                          *)
(***************************************************************************)
\* no block from the second to block b is "---"
beforeEndMark(b) == \A k \in 2..b : text[k] # FrontmatterMark

\* block b is the first "---" after the first block
isEndMark(b) == b > 1 /\ text[b] = FrontmatterMark /\ beforeEndMark(b - 1)

\* C27: in a classified document whose first block is "---", the first
\* block and every block up to the next "---" have state FrontmatterBlock,
\* whatever their texts, that next "---" has state FrontmatterBlockEnd, and
\* no block after it has a front-matter state.
C27_SingleFrontmatter ==
    (pc # "new" /\ text[1] = FrontmatterMark)
        => \A b \in Blocks :
               /\ beforeEndMark(b) => state[b] = FrontmatterBlock
               /\ isEndMark(b) => state[b] = FrontmatterBlockEnd
               /\ (~beforeEndMark(b) /\ ~isEndMark(b))
                      => state[b] \notin FrontmatterStates

\* the classified document is "---", "---" and "---": front matter, its end
\* and a block that is no front matter
C27_Witness ==
    /\ pc # "new"
    /\ text = << FrontmatterMark, FrontmatterMark, FrontmatterMark >>
    /\ state[1] = FrontmatterBlock
    /\ state[2] = FrontmatterBlockEnd
    /\ state[3] \notin FrontmatterStates

(***************************************************************************)
(* The agreement of the state of a block with its text.                    *)
(***************************************************************************)
\* the fence that opens a block of the language state s
openingFence(s) ==
    IF s = CodeCpp THEN Fence \o <<"c", "p", "p">> ELSE Fence \o <<"j", "s">>

\* the state s that highlightBlock has left on a block of text t, the state
\* of the block before it being prev, agrees with the text
stateAgrees(s, t, prev) ==
    /\ s = HeadlineEnd
           => t # <<>> /\ (hasOnlyHeadChars(t, "=") \/ hasOnlyHeadChars(t, "-"))
    /\ s = CodeBlockEnd
           => startsWith(t, Fence) /\ (prev = CodeBlock \/ prev >= 200)
    /\ s = FrontmatterBlockEnd
           => t = FrontmatterMark /\ prev = FrontmatterBlock
    /\ s \in {CodeCpp, CodeJs} => (t = openingFence(s) \/ prev = s)

\* C28: after highlightBlock on any block of the document, whatever the
\* state of the block before it, state HeadlineEnd goes with a text of only
\* '=' or only '-', CodeBlockEnd with a fence after a code state,
\* FrontmatterBlockEnd with "---" after FrontmatterBlock, and CodeCpp or
\* CodeJs with the opening fence of the language or with that same state
\* before.
C28_StateAgreesWithText ==
    op.name = "rehighlight"
        => \A b \in Blocks, p \in PreviousStates :
               stateAgrees(ClassifyText(b, text[b], p).state[b], text[b],
                           IF b = 1 THEN -1 ELSE p)

\* the first rehighlight has classified a js fence and the fence that
\* closes it
C28_Witness ==
    /\ op.name = "rehighlight"
    /\ \E b \in Blocks \ {1} :
           /\ text[b - 1] = openingFence(CodeJs)
           /\ state[b - 1] = CodeJs
           /\ startsWith(text[b], Fence)
           /\ state[b] = CodeBlockEnd

(***************************************************************************)
(* The setext headings of a document at rest.                              *)
(***************************************************************************)
\* the heading state s of block b has a cause in the text: the block is an
\* ATX heading of that level, or the block below it is the underline of
\* that level
headingCaused(b, s) ==
    \/ isAtxLine(text[b], s - H1 + 1)
    \/ b < NumLines
          /\ hasOnlyHeadChars(text[b + 1], IF s = H1 THEN "=" ELSE "-")

\* no block has a heading state H1 or H2 without a cause in the text
NoStaleHeading ==
    \A b \in Blocks : state[b] \in {H1, H2} => headingCaused(b, state[b])

\* C29: when a timer tick has drained the queue of dirty blocks and every
\* block in state H1 or H2 is an ATX heading of that level or stands
\* directly above a block of only '=' (for H1) or only '-' (for H2), then
\* the same is true after an edit of a block that has been classified and
\* has left the queue empty; so a block does not keep H1 or H2 when the
\* underline below it is edited into another text.
C29_NoStaleSetextHeading ==
    [][(/\ op.name = "highlightingFinished"
        /\ dirtyTextBlocks = <<>>
        /\ NoStaleHeading
        /\ op'.name = "edit"
        /\ dirtyTextBlocks' = <<>>) => NoStaleHeading']_vars

=============================================================================
